---- MODULE Spec2Model ----
(***************************************************************************)
(* Super League Kerala calendar sync: the command line entry point (main), *)
(* the dispatcher (SLKCalendarSync), the per-match reconciliation worker   *)
(* (_process_single_match), the feed client (SLKAPIClient) and the         *)
(* calendar service (GoogleCalendarService) against a calendar backend.    *)
(***************************************************************************)
EXTENDS Integers, Sequences, FiniteSets, TLC

\* ---------------------------------------------------------------- bounds
MaxFeed == 2
MaxMatchId == 2
MaxWorkersArg == 2
MaxFaults == 1

\* ------------------------------------------------------ program constants
FindMaxResults == 1000
ClearMaxResults == 2500

\* Python None where an integer is expected, and where a string is expected.
None == -1
NoError == ""

VARIABLES
  args,          \* parsed command line: dry_run, all, upcoming, full_refresh, max_workers
  rawFeed,       \* the JSON array the feed endpoint serves
  pc,            \* position of the main thread
  sync_completed,\* argument of the running sync_matches call
  listed,        \* clear_all_events: the listing being deleted, and whether a call raised
  tasks,         \* the futures submitted to the pool, in submission order
  stats,         \* the statistics dictionary of the run
  output,        \* what main reported: "none", "stats", "fatal", "dry", "unexpected", "interrupted"
  exit_status,   \* process exit status, None while running
  bulk,          \* calendar: unrelated plain events that start before every other event
  events,        \* calendar: the other events
  nextId,        \* calendar: next fresh event id
  faults,        \* number of failed calls and interrupts so far
  fetches,       \* number of feed fetches issued
  writes,        \* number of insert/update/delete calls issued to the backend
  failures,      \* which of authenticate, clear_all_events, fetch_matches reported failure
  events0,       \* the calendar when the run began
  bulk0,
  fmt            \* the normalise-format-describe pipeline applied to one batch

vars == <<args, rawFeed, pc, sync_completed, listed, tasks, stats, output,
          exit_status, bulk, events, nextId, faults, fetches, writes,
          failures, events0, bulk0, fmt>>

Min(a, b) == IF a < b THEN a ELSE b

\* ------------------------------------------------------------ feed records
\* A raw feed entry is a JSON value.  An object is a record; a key that the
\* feed left out is not in the record's domain.  An entry that is not an
\* object (null, a number, a string, a list) is the record [json |-> kind].
Has(r, k) == k \in DOMAIN r
Get(r, k, default) == IF Has(r, k) THEN r[k] ELSE default
IsObject(r) == ~Has(r, "json")
NonObject == [json |-> "null"]

\* A URL or other free text is the sequence of its lexical tokens, the empty
\* string is <<>>.
NotAvailable == <<"Not Available">>
FeedLink == <<"https://", "feed.example/watch">>
TicketLink == <<"https://", "tickets.example/slk">>
FtpLink == <<"ftp://", "feed.example/watch">>

\* The required fields of MatchData that the feed sets the same way in every
\* record of the runs explored.
Base ==
  [home_team |-> "Home FC", home_team_short_name |-> "HFC", home_team_logo |-> "/h.png",
   away_team |-> "Away FC", away_team_short_name |-> "AFC", away_team_logo |-> "/a.png",
   date |-> "Sat 1", time |-> "19:30", day |-> "Sat", is_started |-> 0,
   stat_match_id |-> 7]

RawValid ==
  {v @@ Base : v \in [match_id : 1..MaxMatchId, match_date : {"ok"},
                      completed : {0, 1}, is_cancel : {0, 1}]}

RawMissingId ==
  {v @@ Base : v \in [match_date : {"ok"}, completed : {0}, is_cancel : {0}]}

RawRecords == RawValid \cup RawMissingId \cup {NonObject}

RECURSIVE SeqsUpTo(_, _)
SeqsUpTo(S, n) ==
  IF n = 0 THEN {<<>>}
  ELSE LET shorter == SeqsUpTo(S, n - 1)
       IN shorter \cup {Append(s, x) : s \in {t \in shorter : Len(t) = n - 1}, x \in S}

\* The three-record feed of the end-to-end example: one upcoming record, one
\* completed record with result "2 - 1", one record without match_id.
E2EFeed ==
  << [match_id |-> 1, match_date |-> "ok", completed |-> 0, is_cancel |-> 0] @@ Base,
     [match_id |-> 2, match_date |-> "ok", completed |-> 1, is_cancel |-> 0,
      result |-> <<"2", " ", "-", " ", "1">>] @@ Base,
     [match_date |-> "ok", completed |-> 0, is_cancel |-> 0] @@ Base >>

Feeds == SeqsUpTo(RawRecords, MaxFeed) \cup {E2EFeed}

Digits == {"0", "1", "2", "3", "4", "5", "6", "7", "8", "9"}
Spaces == {" "}

RECURSIVE DropWhile(_, _)
DropWhile(s, C) ==
  IF s # <<>> /\ Head(s) \in C THEN DropWhile(Tail(s), C) ELSE s

RECURSIVE Reverse(_)
Reverse(s) == IF s = <<>> THEN <<>> ELSE Append(Reverse(Tail(s)), Head(s))

Strip(s) == Reverse(DropWhile(Reverse(DropWhile(s, Spaces)), Spaces))

\* MatchData.validate_result: empty, or ^\d+\s*-\s*\d+$ after strip().  A
\* result is its sequence of characters.
validate_result(v) ==
  \/ v = <<>>
  \/ LET s == Strip(v)
         a == DropWhile(s, Digits)
         b == DropWhile(a, Spaces)
         c == IF b = <<>> THEN <<>> ELSE DropWhile(Tail(b), Spaces)
         d == DropWhile(c, Digits)
     IN /\ Len(a) < Len(s)
        /\ b # <<>> /\ Head(b) = "-"
        /\ Len(d) < Len(c)
        /\ d = <<>>

\* validate_url, validate_ticket_link, validate_video_url: empty, or starting
\* with http:// or https://.
validate_url(v) == v = <<>> \/ Head(v) \in {"http://", "https://"}

\* validate_match_date: strptime(v, '%Y-%m-%d %H:%M:%S') succeeds.
validate_match_date(v) == v = "ok"

\* BroadcastChannel: name, logo and link required, the link a URL or empty.
BroadcastChannel(c) ==
  /\ Has(c, "name") /\ Has(c, "logo") /\ Has(c, "link")
  /\ validate_url(c.link)

\* The required str fields: present, any string (the empty one included).
RequiredStr ==
  {"home_team", "home_team_short_name", "home_team_logo", "away_team",
   "away_team_logo", "away_team_short_name", "date", "time", "day"}

\* MatchData.model_validate: every required field present, every constraint
\* and validator satisfied.  Only an object can validate.
ModelValidate(r) ==
  /\ IsObject(r)
  /\ \A k \in RequiredStr : Has(r, k)
  /\ Has(r, "match_date") /\ validate_match_date(r.match_date)
  /\ Has(r, "completed") /\ r.completed \in 0..1
  /\ Has(r, "is_cancel") /\ r.is_cancel \in 0..1
  /\ Has(r, "is_started") /\ r.is_started \in 0..1
  /\ Has(r, "match_id") /\ r.match_id > 0
  /\ Has(r, "stat_match_id") /\ r.stat_match_id > 0
  /\ Has(r, "result") => validate_result(r.result)
  /\ Has(r, "link") => validate_url(r.link)
  /\ Has(r, "full_video_url") => validate_url(r.full_video_url)
  /\ Has(r, "broadcast") => \A j \in DOMAIN r.broadcast : BroadcastChannel(r.broadcast[j])

\* An is_upcoming that looks at the completed flag only.
is_upcoming_NotCompleted(m) == m.completed = 0

\* MatchData.is_upcoming, is_completed, is_cancelled
is_upcoming(m) == m.completed = 0 /\ m.is_cancel = 0
is_completed(m) == m.completed = 1
is_cancelled(m) == m.is_cancel = 1

\* MatchData.get_datetime: the parsed instant, None when unparseable.  The
\* instant of match n is n (a later id is a later fixture).
get_datetime(m) == IF m.match_date = "ok" THEN m.match_id ELSE None

\* SLKAPIClient.fetch_matches on a successful response.  The handler of a
\* rejected entry logs raw_match.get('home_team', ...): on an entry that is
\* not an object that raises AttributeError, which no except clause of
\* fetch_matches catches, so the call raises instead of returning.
fetch_raises(raw) == \E j \in DOMAIN raw : ~IsObject(raw[j])

\* What fetch_matches returns when it returns: the entries that validate, in
\* feed order.
RECURSIVE fetch_matches(_)
fetch_matches(raw) ==
  IF raw = <<>> THEN <<>>
  ELSE IF ModelValidate(Head(raw)) THEN <<Head(raw)>> \o fetch_matches(Tail(raw))
  ELSE fetch_matches(Tail(raw))

RECURSIVE Upcoming(_)
Upcoming(ms) ==
  IF ms = <<>> THEN <<>>
  ELSE IF is_upcoming(Head(ms)) THEN <<Head(ms)>> \o Upcoming(Tail(ms))
  ELSE Upcoming(Tail(ms))

\* A get_upcoming_matches that forgets the filter.
get_upcoming_matches_unfiltered(raw) == fetch_matches(raw)

\* SLKAPIClient.get_upcoming_matches
get_upcoming_matches(raw) == Upcoming(fetch_matches(raw))

\* The event title: its leading glyph, its parenthesised suffix ("" when
\* there is none) and, for the result suffix, the result text.
Title(glyph, suffix, result) == [glyph |-> glyph, suffix |-> suffix, result |-> result]

\* SLKAPIClient.format_match_for_calendar, the title: is_completed() is
\* tested first, is_cancelled() second.
TitleOf(m) ==
  IF is_completed(m)
  THEN IF Get(m, "result", <<>>) # <<>>
       THEN Title("trophy", "result", m.result)
       ELSE Title("trophy", "Completed", <<>>)
  ELSE IF is_cancelled(m) THEN Title("cross", "Cancelled", <<>>)
  ELSE Title("ball", "", <<>>)

\* SLKAPIClient._fix_broadcast_urls: the lookup table, keyed by the exact name.
url_mappings ==
  [n \in {"SPORTS.COM", "SONY SPORTS", "DD MALAYALAM", "ETISALAT"} |->
     CASE n = "SPORTS.COM" -> <<"https://", "sports.com/en/slk">>
       [] n = "SONY SPORTS" -> <<"https://", "www.sonysportsnetwork.com/">>
       [] n = "DD MALAYALAM" -> <<"https://", "prasarbharati.gov.in/dd-malayalam/">>
       [] n = "ETISALAT" -> <<"https://", "www.etisalat.ae">>]

\* A _fix_broadcast_urls that leaves every link as the feed supplied it.
fix_broadcast_urls_verbatim(channels) == channels

\* A _fix_broadcast_urls that sends every channel to the SPORTS.COM page.
fix_broadcast_urls_all(channels) ==
  [j \in DOMAIN channels |-> [channels[j] EXCEPT !.link = url_mappings["SPORTS.COM"]]]

\* SLKAPIClient._fix_broadcast_urls
fix_broadcast_urls(channels) ==
  [j \in DOMAIN channels |->
     [channels[j] EXCEPT !.link = IF channels[j].name \in DOMAIN url_mappings
                                  THEN url_mappings[channels[j].name]
                                  ELSE @]]

\* SLKAPIClient.format_match_for_calendar, the fields the reconciliation and
\* the event description read.
format_match_for_calendar(m) ==
  [title |-> TitleOf(m), datetime |-> get_datetime(m),
   match_id |-> m.match_id, completed |-> m.completed,
   home_team |-> m.home_team, away_team |-> m.away_team,
   result |-> Get(m, "result", <<>>),
   broadcast |-> fix_broadcast_urls(Get(m, "broadcast", <<>>)),
   ticket_link |-> IF Get(m, "link", <<>>) # <<>> THEN m.link ELSE NotAvailable,
   venue |-> IF Get(m, "venue", "") # "" THEN m.venue ELSE "Not Available",
   full_video_url |-> Get(m, "full_video_url", <<>>)]

\* str.upper() on the channel names of the runs explored.
upper(s) == IF s = "sports.com" THEN "SPORTS.COM" ELSE s

\* GoogleCalendarService._format_event_description.  The completed header,
\* built iff completed = 1: the final score when there is a result, the match
\* center link when match_id and both team names are non-empty, the full
\* match link when there is a video URL.  The ticket line and the broadcast
\* block, appended iff completed = 0 (upcoming_block): the ticket link and
\* one bullet per channel (none: 'Broadcast: Not Available').  A bullet is
\* the channel name and the target of its anchor, <<>> when the name is
\* printed without an anchor.
format_event_description(match_data) ==
  [final_score |-> IF match_data.completed = 1 THEN match_data.result ELSE <<>>,
   match_center |-> /\ match_data.completed = 1 /\ match_data.match_id # 0
                    /\ match_data.home_team # "" /\ match_data.away_team # "",
   full_match |-> IF match_data.completed = 1 THEN match_data.full_video_url ELSE <<>>,
   venue |-> match_data.venue,
   upcoming_block |-> match_data.completed = 0,
   tickets |-> IF match_data.completed = 0 THEN match_data.ticket_link ELSE <<>>,
   bullets |->
     IF match_data.completed = 0
     THEN [j \in DOMAIN match_data.broadcast |->
             LET channel == match_data.broadcast[j]
             IN [name |-> channel.name,
                 href |-> IF upper(channel.name) = "SPORTS.COM" /\ channel.link # <<>>
                          THEN channel.link ELSE <<>>]]
     ELSE <<>>]

\* ---------------------------------------------------------------- calendar
\* create_event, lines 185-194: the reminders and the source block of an
\* event this program creates.
ProgramReminders ==
  [useDefault |-> FALSE, overrides |-> <<[method |-> "popup", minutes |-> 60]>>]
ProgramSource ==
  [title |-> "Super League Kerala", url |-> "https://www.superleaguekerala.com"]

\* What an event carries that was written by the calendar's owner: the
\* default reminder policy, no source, a description of their own.
OwnerReminders == [useDefault |-> TRUE, overrides |-> <<>>]
OwnerSource == [title |-> "", url |-> ""]
OwnerDescription ==
  [final_score |-> <<>>, match_center |-> FALSE, full_match |-> <<>>, venue |-> "",
   upcoming_block |-> FALSE, tickets |-> <<"note">>, bullets |-> <<>>]

\* An event: id, start instant (the window is represented by its start),
\* private slk_match_id ("" when the event has no such property), whether it
\* is an instance of a recurring event, summary; description, location,
\* reminders and source as the calendar's owner last left them.
Event(id, start, key, rec, summary) ==
  [id |-> id, start |-> start, slk_match_id |-> key, recurring |-> rec, summary |-> summary,
   description |-> OwnerDescription, location |-> "", reminders |-> OwnerReminders,
   source |-> OwnerSource]

\* An event of an earlier run for match 1, whose reminders the owner has
\* since put back to the default policy; and an instance of a recurring event.
TrackedOld == Event(1, 1, ToString(1), FALSE, Title("ball", "stale", <<>>))
RecurringInstance == Event(2, 0, "", TRUE, Title("", "standup", <<>>))

InitialEvents == SUBSET {TrackedOld, RecurringInstance}
BulkSizes == {0, FindMaxResults, ClearMaxResults}

Before(x, y) == x.start < y.start \/ (x.start = y.start /\ x.id < y.id)

RECURSIVE ByStartTime(_)
ByStartTime(S) ==
  IF S = {} THEN <<>>
  ELSE LET e == CHOOSE x \in S : \A y \in S \ {x} : Before(x, y)
       IN <<e>> \o ByStartTime(S \ {e})

\* events().list(maxResults=n, singleEvents=True, orderBy='startTime'): one
\* page, never followed by a nextPageToken request.  nb is the number of bulk
\* events on the page, items the other events on it.
ListPage(n) ==
  LET nb == Min(bulk, n)
      all == ByStartTime(events)
  IN [nb |-> nb, items |-> SubSeq(all, 1, Min(Len(all), n - nb))]

Outcomes == {"ok", "http", "other"}
MayFail(o) == o = "ok" \/ faults < MaxFaults
Charge(o) == IF o = "ok" THEN faults ELSE faults + 1

ZeroStats == [created |-> 0, updated |-> 0, errors |-> 0, skipped |-> 0]

\* ------------------------------------------------------------------- Init
\* argparse, lines 251-267: the flags, with --upcoming defaulted when neither
\* --all nor --upcoming was given.
ParseArgs(a) ==
  IF ~a.all /\ ~a.upcoming THEN [a EXCEPT !.upcoming = TRUE] ELSE a

ArgSets ==
  [dry_run : BOOLEAN, all : BOOLEAN, upcoming : BOOLEAN, full_refresh : BOOLEAN,
   max_workers : 0..MaxWorkersArg]

\* A main that looks at --full-refresh before --dry-run.
Mode_RefreshFirst(a) ==
  IF a.full_refresh THEN "full_refresh"
  ELSE IF a.dry_run THEN "dry_run"
  ELSE IF a.all THEN "all"
  ELSE "upcoming"

\* main, lines 272 and 299-304: the branch a run takes.
Mode(a) ==
  IF a.dry_run THEN "dry_run"
  ELSE IF a.full_refresh THEN "full_refresh"
  ELSE IF a.all THEN "all"
  ELSE "upcoming"

\* clear_all_events before its listing: nb and items are the listed events
\* still to delete, failed tells whether a backend call of the step raised.
NoListing == [nb |-> 0, items |-> <<>>, failed |-> FALSE]

\* The pipeline is idle during a run of main.
NoPipeline == [stage |-> "idle"]

Init ==
  /\ args \in {ParseArgs(a) : a \in ArgSets}
  /\ rawFeed \in Feeds
  /\ pc = "main"
  /\ sync_completed = FALSE
  /\ listed = NoListing
  /\ tasks = <<>>
  /\ stats = ZeroStats
  /\ output = "none"
  /\ exit_status = None
  /\ bulk \in BulkSizes
  /\ events \in InitialEvents
  /\ nextId = 3
  /\ faults = 0
  /\ fetches = 0
  /\ writes = 0
  /\ failures = {}
  /\ events0 = events
  /\ bulk0 = bulk
  /\ fmt = NoPipeline

calUnchanged == UNCHANGED <<bulk, events, nextId, writes>>

\* ---------------------------------------------------------------- dry run
\* A main whose dry run falls through into the sync.
AfterDryRun_FallThrough == "fr_sync"

\* main, lines 272 and 298: the dry run is the if branch, the sync modes are
\* the else branch; after the dry run main returns.
AfterDryRun == "exit"

\* main, lines 272-297: fetch, classify, format and log; no calendar service
\* method is called.  A fetch failure reaches main's except Exception.
DryRun ==
  /\ pc = "main" /\ Mode(args) = "dry_run"
  /\ \E o \in {"ok", "request", "json"} :
       /\ MayFail(o)
       /\ faults' = Charge(o)
       /\ fetches' = fetches + 1
       /\ LET raised == o # "ok" \/ fetch_raises(rawFeed)
          IN /\ failures' = IF raised THEN failures \cup {"fetch"} ELSE failures
             /\ output' = IF raised THEN "unexpected" ELSE "dry"
             /\ exit_status' = IF raised THEN 1 ELSE 0
  /\ pc' = AfterDryRun
  /\ calUnchanged
  /\ UNCHANGED <<fmt, args, rawFeed, sync_completed, listed, tasks, stats, events0, bulk0>>

\* ------------------------------------------------------------ full refresh
Fatal(msg) == [error |-> msg]

\* A full_refresh that goes on whatever the step reported.
Gate_Ignored(ok, onward) == onward

\* full_refresh, lines 221-229: a step that reports failure ends the refresh
\* with the fatal status; otherwise the refresh goes on.
Gate(ok, onward) == IF ok THEN onward ELSE "summary"

\* full_refresh, lines 220-223: the dispatcher's own service authenticates.
FullRefreshAuth ==
  /\ pc = "main" /\ Mode(args) = "full_refresh"
  /\ \E o \in {"ok", "fail"} :
       /\ MayFail(o)
       /\ faults' = Charge(o)
       /\ failures' = IF o = "ok" THEN failures ELSE failures \cup {"auth"}
       /\ pc' = Gate(o = "ok", "fr_clear")
       /\ stats' = IF o = "ok" THEN stats ELSE Fatal("Authentication failed")
  /\ calUnchanged
  /\ UNCHANGED <<fmt, args, rawFeed, sync_completed, listed, tasks, output, exit_status,
                 fetches, events0, bulk0>>

ListingEmpty(l) == l.nb = 0 /\ l.items = <<>>

\* clear_all_events, lines 231-246 and 276-281: one listing of at most 2500
\* events; a failed listing makes the step return False, an empty one True.
ClearList ==
  /\ pc = "fr_clear"
  /\ \E o \in Outcomes :
       /\ MayFail(o)
       /\ faults' = Charge(o)
       /\ failures' = IF o = "ok" THEN failures ELSE failures \cup {"clear"}
       /\ LET page == IF o = "ok"
                      THEN [nb |-> ListPage(ClearMaxResults).nb,
                            items |-> ListPage(ClearMaxResults).items,
                            failed |-> FALSE]
                      ELSE [listed EXCEPT !.failed = TRUE]
          IN /\ listed' = page
             /\ pc' = Gate(o = "ok", IF ListingEmpty(page) THEN "fr_sync" ELSE "fr_delete")
       /\ stats' = IF o = "ok" THEN stats ELSE Fatal("Failed to clear events")
  /\ calUnchanged
  /\ UNCHANGED <<fmt, args, rawFeed, sync_completed, tasks, output, exit_status,
                 fetches, events0, bulk0>>

\* clear_all_events, lines 251-274, for the bulk events of the listing: every
\* delete succeeds, or one of them raises HttpError (logged, the loop goes on),
\* or the first raises another exception (the step returns False).
ClearDeleteBulk ==
  /\ pc = "fr_delete" /\ listed.nb > 0
  /\ \E o \in Outcomes :
       /\ MayFail(o)
       /\ faults' = Charge(o)
       /\ failures' = IF o = "other" THEN failures \cup {"clear"} ELSE failures
       /\ LET rest == IF o = "other" THEN [listed EXCEPT !.failed = TRUE]
                      ELSE [listed EXCEPT !.nb = 0, !.failed = @ \/ o = "http"]
          IN /\ listed' = rest
             /\ pc' = Gate(o # "other", IF ListingEmpty(rest) THEN "fr_sync" ELSE "fr_delete")
       /\ bulk' = IF o = "ok" THEN bulk - listed.nb
                  ELSE IF o = "http" THEN bulk - listed.nb + 1
                  ELSE bulk
       /\ writes' = IF o = "other" THEN writes + 1 ELSE writes + listed.nb
       /\ stats' = IF o = "other" THEN Fatal("Failed to clear events") ELSE stats
  /\ UNCHANGED <<fmt, args, rawFeed, sync_completed, tasks, output, exit_status,
                 events, nextId, fetches, events0, bulk0>>

\* A clear loop without the recurring-event test.
IsRecurringInstance_Never(event) == FALSE

\* clear_all_events, line 254: 'recurringEventId' in event
IsRecurringInstance(event) == event.recurring

\* clear_all_events, lines 251-274, for the next listed event: an instance of
\* a recurring event is skipped; otherwise one delete call, whose HttpError is
\* logged and skipped and whose other exceptions make the step return False.
ClearDeleteEvent ==
  /\ pc = "fr_delete" /\ listed.nb = 0 /\ listed.items # <<>>
  /\ LET e == Head(listed.items)
         rest == [listed EXCEPT !.items = Tail(listed.items)]
         restFailed == [rest EXCEPT !.failed = TRUE]
         onward == IF ListingEmpty(rest) THEN "fr_sync" ELSE "fr_delete"
     IN IF IsRecurringInstance(e)
        THEN /\ listed' = rest /\ pc' = onward
             /\ UNCHANGED <<events, writes, faults, stats, failures>>
        ELSE \E o \in Outcomes :
               /\ MayFail(o)
               /\ faults' = Charge(o)
               /\ failures' = IF o = "other" THEN failures \cup {"clear"} ELSE failures
               /\ writes' = writes + 1
               /\ events' = IF o = "ok" THEN {x \in events : x.id # e.id} ELSE events
               /\ listed' = IF o = "other" THEN [listed EXCEPT !.failed = TRUE]
                            ELSE IF o = "http" THEN restFailed ELSE rest
               /\ pc' = Gate(o # "other", onward)
               /\ stats' = IF o = "other" THEN Fatal("Failed to clear events") ELSE stats
  /\ UNCHANGED <<fmt, args, rawFeed, sync_completed, tasks, output, exit_status,
                 bulk, nextId, fetches, events0, bulk0>>

\* ------------------------------------------------------------ sync_matches
\* full_refresh, lines 235-243, applied to what sync_matches returned.
Returned(s) ==
  IF Mode(args) = "full_refresh" /\ ~("error" \in DOMAIN s)
  THEN [created |-> s.created, updated |-> s.updated, errors |-> s.errors,
        skipped |-> s.skipped, refresh_type |-> "full_refresh", events_cleared |-> TRUE]
  ELSE s

\* A sync_matches that counts an empty batch as an error.
OnEmpty_Error(s) == [s EXCEPT !.errors = 1]

\* sync_matches, lines 155-157: with no match to sync the statistics are
\* returned as they were initialised.
OnEmpty(s) == s

\* The title of a result dictionary before the match was formatted.
NoTitle == Title("", "", <<>>)

\* A submitted task: the match, the position of its _process_single_match
\* call, the result dictionary (action, success, title, error), the locals
\* existing_event_id (found) and thread_calendar_service (service), and a
\* record of the backend calls the task issued: each with the service it
\* went through (calls), their order (log) and those that raised (failed).
NewTask(m) ==
  [match |-> m, st |-> "queued", found |-> None, body |-> None,
   action |-> "skipped", success |-> FALSE, error |-> NoError, faulted |-> FALSE,
   title |-> NoTitle, service |-> None, authenticated |-> FALSE,
   lookup_failed |-> FALSE, calls |-> {}, log |-> <<>>, failed |-> {}]

\* sync_matches, lines 140-167 and 196-199: the fetch, the empty-batch return,
\* the pool construction and the submission of one task per match.  A fetch
\* that raises (the request, the JSON parse, or the rejection handler on an
\* entry that is not an object), or a pool that rejects max_workers <= 0, is caught at line 196.
SyncFetch ==
  /\ \/ pc = "main" /\ Mode(args) \in {"all", "upcoming"}
     \/ pc = "fr_sync"
  /\ LET sc == IF pc = "fr_sync" THEN TRUE ELSE Mode(args) = "all"
     IN /\ sync_completed' = sc
        /\ \E o \in {"ok", "request", "json"} :
             /\ MayFail(o)
             /\ faults' = Charge(o)
             /\ fetches' = fetches + 1
             /\ failures' = IF o # "ok" \/ fetch_raises(rawFeed)
                            THEN failures \cup {"fetch"} ELSE failures
             /\ IF o # "ok" \/ fetch_raises(rawFeed)
                THEN /\ stats' = Returned([ZeroStats EXCEPT !.errors = 1])
                     /\ tasks' = tasks /\ pc' = "summary"
                ELSE LET matches == IF sc THEN fetch_matches(rawFeed)
                                    ELSE get_upcoming_matches(rawFeed)
                     IN IF matches = <<>>
                        THEN /\ stats' = Returned(OnEmpty(ZeroStats))
                             /\ tasks' = tasks /\ pc' = "summary"
                        ELSE IF args.max_workers <= 0
                        THEN /\ stats' = Returned([ZeroStats EXCEPT !.errors = 1])
                             /\ tasks' = tasks /\ pc' = "summary"
                        ELSE /\ stats' = ZeroStats
                             /\ tasks' = [i \in 1..Len(matches) |-> NewTask(matches[i])]
                             /\ pc' = "pool"
  /\ calUnchanged
  /\ UNCHANGED <<fmt, args, rawFeed, listed, output, exit_status, events0, bulk0>>

\* ----------------------------------------------------------------- workers
InProgress == {i \in DOMAIN tasks : tasks[i].st \in {"auth", "find", "get", "update", "insert"}}

Finish(t, action, success, error) ==
  [t EXCEPT !.st = "done", !.action = action, !.success = success, !.error = error]

\* The backend operations: a call is the operation and the service object it
\* was issued through.
BackendOps == {"authenticate", "list", "get", "update", "insert", "delete"}
Call(t, op) == [t EXCEPT !.calls = @ \cup {<<op, t.service>>}, !.log = Append(@, op)]
Fail(t, op) == [t EXCEPT !.faulted = TRUE, !.failed = @ \cup {op}]

\* The service objects: 0 is the dispatcher's self.calendar_service, i > 0 is
\* the object that the i-th task constructs.
DispatcherService == 0

\* A worker that borrows the dispatcher's service.
ServiceFor_Dispatcher(i) == DispatcherService

\* _process_single_match, lines 83-85: a GoogleCalendarService constructed by
\* the task, for this call only.
ServiceFor(i) == i

\* A worker that never takes the completed-skip.
SkipCompleted_Never(formatted_match, sc) == FALSE

\* _process_single_match, lines 76-79: a completed match is skipped unless
\* completed matches are being synced.
SkipCompleted(formatted_match, sc) == formatted_match.completed = 1 /\ ~sc

\* A worker that never takes the no-datetime return.
NoSchedule_Never(formatted_match) == FALSE

\* _process_single_match, lines 72-74: 'if not formatted_match.get("datetime")',
\* the value of MatchData.get_datetime(), None when match_date does not parse.
NoSchedule(formatted_match) == formatted_match.datetime = None

\* A pool that starts a thread for every submitted task.
HasIdleThread_Always(running, max_workers) == TRUE

\* sync_matches, line 162: ThreadPoolExecutor(max_workers=self.max_workers)
\* runs a queued task only on a thread that is not running another one, and
\* has at most max_workers threads.
HasIdleThread(running, max_workers) == running < max_workers

\* The pool threads run while sync_matches is inside its with block: during
\* the as_completed loop, and during the shutdown(wait=True) that the block's
\* exit performs when an interrupt unwinds through it.
PoolRunning == pc \in {"pool", "interrupted"}

\* A pool thread takes the oldest queued task and runs _process_single_match
\* up to the authenticate call, lines 58-85 and 123-126.
WorkerStart(i) ==
  /\ PoolRunning /\ i \in DOMAIN tasks /\ tasks[i].st = "queued"
  /\ \A j \in 1..(i - 1) : tasks[j].st # "queued"
  /\ HasIdleThread(Cardinality(InProgress), args.max_workers)
  /\ LET formatted_match == format_match_for_calendar(tasks[i].match)
         t == [tasks[i] EXCEPT !.title = formatted_match.title]
     IN \E o \in {"ok", "raise"} :
          /\ MayFail(o)
          /\ faults' = Charge(o)
          /\ tasks' = [tasks EXCEPT ![i] =
               IF o = "raise"
               THEN Finish([tasks[i] EXCEPT !.faulted = TRUE], "error", FALSE, "exception")
               ELSE IF NoSchedule(formatted_match)
               THEN Finish(t, "skipped", FALSE, NoError)
               ELSE IF SkipCompleted(formatted_match, sync_completed)
               THEN Finish(t, "skipped", FALSE, NoError)
               ELSE [t EXCEPT !.st = "auth", !.service = ServiceFor(i)]]
  /\ calUnchanged
  /\ UNCHANGED <<fmt, args, rawFeed, pc, sync_completed, listed, stats, output, exit_status,
                 fetches, failures, events0, bulk0>>

\* A worker that goes on whatever authenticate returned.
Authenticated_Always(o) == TRUE

\* _process_single_match, line 88: 'if not thread_calendar_service.authenticate()';
\* authenticate returns False on any failure, calendar_service.py lines 69-71.
Authenticated(o) == o = "ok"

\* _process_single_match, lines 83-92: the task's own service authenticates.
WorkerAuth(i) ==
  /\ PoolRunning /\ i \in DOMAIN tasks /\ tasks[i].st = "auth"
  /\ \E o \in {"ok", "fail"} :
       /\ MayFail(o)
       /\ faults' = Charge(o)
       /\ LET c == Call(tasks[i], "authenticate")
              t == IF o = "ok" THEN c ELSE Fail(c, "authenticate")
          IN tasks' = [tasks EXCEPT ![i] =
               IF Authenticated(o) THEN [t EXCEPT !.st = "find", !.authenticated = TRUE]
               ELSE Finish(t, "error", FALSE, "Failed to authenticate calendar service")]
  /\ calUnchanged
  /\ UNCHANGED <<fmt, args, rawFeed, pc, sync_completed, listed, stats, output, exit_status,
                 fetches, failures, events0, bulk0>>

\* find_event_by_match_id, lines 297-321, on a page of the calendar: the id of
\* the first listed event whose private slk_match_id is str(match_id).
RECURSIVE ScanPage(_, _)
ScanPage(items, match_id) ==
  IF items = <<>> THEN None
  ELSE IF Head(items).slk_match_id = ToString(match_id) THEN Head(items).id
  ELSE ScanPage(Tail(items), match_id)

find_event_by_match_id(match_id, o) ==
  IF o = "ok" THEN ScanPage(ListPage(FindMaxResults).items, match_id) ELSE None

\* A worker that takes the branches the wrong way round.
Branch_Swapped(existing_event_id) ==
  IF existing_event_id # None THEN "insert" ELSE "get"

\* _process_single_match, lines 101 and 111: update_event when the lookup
\* returned an event id, create_event otherwise.
Branch(existing_event_id) ==
  IF existing_event_id # None THEN "get" ELSE "insert"

\* _process_single_match, lines 94-101: the lookup and the choice of branch.
WorkerFind(i) ==
  /\ PoolRunning /\ i \in DOMAIN tasks /\ tasks[i].st = "find"
  /\ \E o \in Outcomes :
       /\ MayFail(o)
       /\ faults' = Charge(o)
       /\ LET match_id == format_match_for_calendar(tasks[i].match).match_id
              existing_event_id == IF match_id # 0
                                   THEN find_event_by_match_id(match_id, o)
                                   ELSE None
              t == IF match_id # 0 THEN Call(tasks[i], "list") ELSE tasks[i]
          IN tasks' = [tasks EXCEPT ![i] =
               [(IF o # "ok" THEN Fail(t, "list") ELSE t)
                  EXCEPT !.found = existing_event_id,
                         !.lookup_failed = o # "ok",
                         !.st = Branch(existing_event_id)]]
  /\ calUnchanged
  /\ UNCHANGED <<fmt, args, rawFeed, pc, sync_completed, listed, stats, output, exit_status,
                 fetches, failures, events0, bulk0>>

Exists(id) == \E e \in events : e.id = id
EventById(id) == CHOOSE e \in events : e.id = id

\* update_event, lines 338-343 and 378-383: fetch the existing event.
WorkerGet(i) ==
  /\ PoolRunning /\ i \in DOMAIN tasks /\ tasks[i].st = "get"
  /\ \E o \in Outcomes :
       /\ IF Exists(tasks[i].found) THEN MayFail(o) ELSE o = "http"
       /\ faults' = IF Exists(tasks[i].found) THEN Charge(o) ELSE faults
       /\ LET t == Call(tasks[i], "get")
          IN tasks' = [tasks EXCEPT ![i] =
               IF o = "ok"
               THEN [t EXCEPT !.st = "update", !.body = EventById(t.found)]
               ELSE Finish(Fail(t, "get"), "error", FALSE,
                           "Failed to update event")]
  /\ calUnchanged
  /\ UNCHANGED <<fmt, args, rawFeed, pc, sync_completed, listed, stats, output, exit_status,
                 fetches, failures, events0, bulk0>>

\* An update_event that puts the program's reminders back.
UpdatedBody_ResetReminders(body, formatted_match) ==
  [body EXCEPT !.summary = formatted_match.title,
               !.description = format_event_description(formatted_match),
               !.location = formatted_match.venue,
               !.reminders = ProgramReminders,
               !.start = IF formatted_match.datetime # None
                         THEN formatted_match.datetime ELSE @]

\* update_event, lines 345-366: the fetched event with summary, description
\* and location overwritten and, when the record has a schedule, start.
UpdatedBody(body, formatted_match) ==
  [body EXCEPT !.summary = formatted_match.title,
               !.description = format_event_description(formatted_match),
               !.location = formatted_match.venue,
               !.start = IF formatted_match.datetime # None
                         THEN formatted_match.datetime ELSE @]

\* update_event, lines 368-383, and _process_single_match, lines 103-110.
WorkerUpdate(i) ==
  /\ PoolRunning /\ i \in DOMAIN tasks /\ tasks[i].st = "update"
  /\ LET t == Call(tasks[i], "update")
         new == UpdatedBody(t.body, format_match_for_calendar(t.match))
     IN \E o \in Outcomes :
          /\ IF Exists(t.found) THEN MayFail(o) ELSE o = "http"
          /\ faults' = IF Exists(t.found) THEN Charge(o) ELSE faults
          /\ writes' = writes + 1
          /\ events' = IF o = "ok"
                       THEN {e \in events : e.id # t.found} \cup {new}
                       ELSE events
          /\ tasks' = [tasks EXCEPT ![i] =
               IF o = "ok" THEN Finish(t, "updated", TRUE, NoError)
               ELSE Finish(Fail(t, "update"), "error", FALSE, "Failed to update event")]
  /\ UNCHANGED <<fmt, args, rawFeed, pc, sync_completed, listed, stats, output, exit_status,
                 bulk, nextId, fetches, failures, events0, bulk0>>

\* A create_event that leaves the tracking key out.
NewEvent_NoKey(id, formatted_match) ==
  [Event(id, formatted_match.datetime, "", FALSE, formatted_match.title)
     EXCEPT !.description = format_event_description(formatted_match),
            !.location = formatted_match.venue,
            !.reminders = ProgramReminders,
            !.source = ProgramSource]

\* create_event, lines 164-202: the event built from the formatted match.
NewEvent(id, formatted_match) ==
  [Event(id, formatted_match.datetime,
         IF formatted_match.match_id # 0 THEN ToString(formatted_match.match_id) ELSE "",
         FALSE, formatted_match.title)
     EXCEPT !.description = format_event_description(formatted_match),
            !.location = formatted_match.venue,
            !.reminders = ProgramReminders,
            !.source = ProgramSource]

\* create_event, lines 204-218, and _process_single_match, lines 113-121.
WorkerInsert(i) ==
  /\ PoolRunning /\ i \in DOMAIN tasks /\ tasks[i].st = "insert"
  /\ LET t == Call(tasks[i], "insert")
     IN \E o \in Outcomes :
          /\ MayFail(o)
          /\ faults' = Charge(o)
          /\ writes' = writes + 1
          /\ events' = IF o = "ok"
                       THEN events \cup {NewEvent(nextId, format_match_for_calendar(t.match))}
                       ELSE events
          /\ nextId' = IF o = "ok" THEN nextId + 1 ELSE nextId
          /\ tasks' = [tasks EXCEPT ![i] =
               IF o = "ok" THEN Finish(t, "created", TRUE, NoError)
               ELSE Finish(Fail(t, "insert"), "error", FALSE, "Failed to create event")]
  /\ UNCHANGED <<fmt, args, rawFeed, pc, sync_completed, listed, stats, output, exit_status,
                 bulk, fetches, failures, events0, bulk0>>

\* ------------------------------------------------------------- fan-in, exit
\* sync_matches, lines 170-189: one finished future is taken from
\* as_completed and its action is counted.
\* A tally that drops the 'error' outcomes.
Count_NoErrors(s, action) ==
  IF action = "created" THEN [s EXCEPT !.created = @ + 1]
  ELSE IF action = "updated" THEN [s EXCEPT !.updated = @ + 1]
  ELSE IF action = "skipped" THEN [s EXCEPT !.skipped = @ + 1]
  ELSE s

Count(s, action) ==
  IF action = "created" THEN [s EXCEPT !.created = @ + 1]
  ELSE IF action = "updated" THEN [s EXCEPT !.updated = @ + 1]
  ELSE IF action = "skipped" THEN [s EXCEPT !.skipped = @ + 1]
  ELSE IF action = "error" THEN [s EXCEPT !.errors = @ + 1]
  ELSE s

\* An as_completed that never yields a future.
Completed_Never(t) == FALSE

\* sync_matches, line 170: as_completed yields a future once its call has
\* returned or raised.
Completed(t) == t.st = "done"

\* sync_matches, lines 170-189: the dispatcher takes a completed future and
\* counts its result.
Collect(i) ==
  /\ pc = "pool" /\ i \in DOMAIN tasks /\ Completed(tasks[i])
  /\ stats' = Count(stats, tasks[i].action)
  /\ tasks' = [tasks EXCEPT ![i].st = "collected"]
  /\ calUnchanged
  /\ UNCHANGED <<fmt, args, rawFeed, pc, sync_completed, listed, output, exit_status,
                 faults, fetches, failures, events0, bulk0>>

\* sync_matches, lines 190-194: every future was collected, the pool is shut
\* down and the statistics are returned.
PoolJoin ==
  /\ pc = "pool" /\ \A i \in DOMAIN tasks : tasks[i].st = "collected"
  /\ stats' = Returned(stats)
  /\ pc' = "summary"
  /\ calUnchanged
  /\ UNCHANGED <<fmt, args, rawFeed, sync_completed, listed, tasks, output, exit_status,
                 faults, fetches, failures, events0, bulk0>>

\* A KeyboardInterrupt reaches the main thread inside the as_completed loop,
\* lines 170-189.  It is not an Exception, so line 196 does not catch it; it
\* unwinds through the with block of line 162.
Interrupt ==
  /\ pc = "pool" /\ faults < MaxFaults
  /\ faults' = faults + 1
  /\ pc' = "interrupted"
  /\ calUnchanged
  /\ UNCHANGED <<fmt, args, rawFeed, sync_completed, listed, tasks, stats, output,
                 exit_status, fetches, failures, events0, bulk0>>

\* The with block's exit is ThreadPoolExecutor.shutdown(wait=True): it joins
\* the pool threads, which first run every submitted task to its end.  Then
\* the interrupt reaches main, lines 331-333: sys.exit(1).
InterruptExit ==
  /\ pc = "interrupted"
  /\ \A i \in DOMAIN tasks : tasks[i].st \in {"done", "collected"}
  /\ output' = "interrupted"
  /\ exit_status' = 1
  /\ pc' = "exit"
  /\ calUnchanged
  /\ UNCHANGED <<fmt, args, rawFeed, sync_completed, listed, tasks, stats,
                 faults, fetches, failures, events0, bulk0>>

\* An exit status that looks only at the fatal 'error' key.
ExitStatus_FatalOnly(s) == IF "error" \in DOMAIN s THEN 1 ELSE 0

\* main, lines 328-329: sys.exit(1) on a fatal status or a counted error,
\* otherwise the interpreter's exit status 0.
ExitStatus(s) ==
  IF "error" \in DOMAIN s THEN 1
  ELSE IF s.errors > 0 THEN 1
  ELSE 0

\* main, lines 306-329: the summary block and the exit status.
Summary ==
  /\ pc = "summary"
  /\ output' = IF "error" \in DOMAIN stats THEN "fatal" ELSE "stats"
  /\ exit_status' = ExitStatus(stats)
  /\ pc' = "exit"
  /\ calUnchanged
  /\ UNCHANGED <<fmt, args, rawFeed, sync_completed, listed, tasks, stats,
                 faults, fetches, failures, events0, bulk0>>

Next ==
  \/ DryRun
  \/ FullRefreshAuth
  \/ ClearList
  \/ ClearDeleteBulk
  \/ ClearDeleteEvent
  \/ SyncFetch
  \/ \E i \in DOMAIN tasks : WorkerStart(i)
  \/ \E i \in DOMAIN tasks : WorkerAuth(i)
  \/ \E i \in DOMAIN tasks : WorkerFind(i)
  \/ \E i \in DOMAIN tasks : WorkerGet(i)
  \/ \E i \in DOMAIN tasks : WorkerUpdate(i)
  \/ \E i \in DOMAIN tasks : WorkerInsert(i)
  \/ \E i \in DOMAIN tasks : Collect(i)
  \/ PoolJoin
  \/ Interrupt
  \/ InterruptExit
  \/ Summary

Spec == Init /\ [][Next]_vars

\* ------------------------------------------- normalise, format, describe
\* The pipeline a record goes through on its way to an event body, applied
\* to one batch: fetch_matches on the parsed response, then
\* format_match_for_calendar and _format_event_description on each match.
Opt(k, S) == {[x \in {} |-> 0]} \cup {[y \in {k} |-> v] : v \in S}

ChannelNames == {"SPORTS.COM", "sports.com", "SONY SPORTS", "KERALA VISION"}
Channels == [name : ChannelNames, logo : {"/c.png"}, link : {<<>>, FeedLink, FtpLink}]
Results == {<<>>, <<"2", " ", "-", " ", "1">>, <<"w", "o">>}

\* The entries a batch is drawn from.  StatusEntries: every combination of
\* the status flags with the result, the ticket link and the broadcast list
\* absent and present.  ConstraintEntries: each constrained field at a valid
\* and at an invalid value, each optional field absent and present.  And an
\* entry that is not an object.
StatusEntries ==
  {a @@ d @@ e @@ f @@ g @@ Base :
     a \in [match_id : {1}, match_date : {"ok"}, completed : {0, 1}, is_cancel : {0, 1}],
     d \in Opt("result", Results),
     e \in Opt("link", {TicketLink}),
     f \in Opt("broadcast", {<<ch>> : ch \in Channels}),
     g \in Opt("full_video_url", {FeedLink})}

ConstraintEntries ==
  {a @@ b @@ c @@ d @@ e @@ [k \in DOMAIN Base \ {"home_team", "is_started"} |-> Base[k]] :
     a \in [completed : {0, 1}, is_cancel : {0}, is_started : {0, 2},
            match_date : {"ok", "2025-13-45"}],
     b \in Opt("match_id", {0, 1}),
     c \in Opt("home_team", {"", "Home FC"}),
     d \in Opt("result", Results),
     e \in Opt("link", {TicketLink, FtpLink})}

RichEntries == StatusEntries \cup ConstraintEntries \cup {NonObject}

GoodEntry == [match_id |-> 2, match_date |-> "ok", completed |-> 0, is_cancel |-> 0] @@ Base

Batches ==
  {<<x>> : x \in RichEntries} \cup {<<x, GoodEntry>> : x \in RichEntries}
    \cup {<<GoodEntry, x>> : x \in RichEntries}

InitFormat ==
  /\ fmt \in [stage : {"raw"}, batch : Batches, raised : {FALSE}, matches : {<<>>},
              formatted : {<<>>}, descriptions : {<<>>}]
  /\ args = ParseArgs([dry_run |-> FALSE, all |-> TRUE, upcoming |-> FALSE,
                       full_refresh |-> FALSE, max_workers |-> 1])
  /\ rawFeed = <<>>
  /\ pc = "pipeline"
  /\ sync_completed = TRUE
  /\ listed = NoListing
  /\ tasks = <<>>
  /\ stats = ZeroStats
  /\ output = "none"
  /\ exit_status = None
  /\ bulk = 0
  /\ events = {}
  /\ nextId = 3
  /\ faults = 0
  /\ fetches = 0
  /\ writes = 0
  /\ failures = {}
  /\ events0 = {}
  /\ bulk0 = 0

pipelineOnly ==
  UNCHANGED <<args, rawFeed, pc, sync_completed, listed, tasks, stats, output,
              exit_status, bulk, events, nextId, faults, fetches, writes,
              failures, events0, bulk0>>

\* fetch_matches, lines 46-57, on the parsed response.
FmtFetch ==
  /\ fmt.stage = "raw"
  /\ fmt' = IF fetch_raises(fmt.batch)
            THEN [fmt EXCEPT !.stage = "fetched", !.raised = TRUE]
            ELSE [fmt EXCEPT !.stage = "fetched", !.matches = fetch_matches(fmt.batch)]
  /\ pipelineOnly

\* format_match_for_calendar on every match that fetch_matches returned.
FmtFormat ==
  /\ fmt.stage = "fetched" /\ ~fmt.raised
  /\ fmt' = [fmt EXCEPT !.stage = "formatted",
                        !.formatted = [j \in DOMAIN fmt.matches |->
                                         format_match_for_calendar(fmt.matches[j])]]
  /\ pipelineOnly

\* _format_event_description on every formatted match.
FmtDescribe ==
  /\ fmt.stage = "formatted"
  /\ fmt' = [fmt EXCEPT !.stage = "described",
                        !.descriptions = [j \in DOMAIN fmt.formatted |->
                                            format_event_description(fmt.formatted[j])]]
  /\ pipelineOnly

NextFormat == FmtFetch \/ FmtFormat \/ FmtDescribe

SpecFormat == InitFormat /\ [][NextFormat]_vars

\* ------------------------------------------- _process_single_match alone
\* One call of _process_single_match(match, sync_completed) on a pool thread,
\* for any validated record and either value of sync_completed, against any
\* of the calendars.
\* MatchData objects whose match_date does not parse: the field validator
\* runs at construction only, so these are objects built with
\* model_construct or assigned to afterwards; fetch_matches returns none.
Unscheduled == {[m EXCEPT !.match_date = "2025-13-45"] : m \in RawValid}

InitWorker ==
  /\ args \in {ParseArgs([dry_run |-> FALSE, all |-> TRUE, upcoming |-> FALSE,
                          full_refresh |-> FALSE, max_workers |-> w]) : w \in 1..MaxWorkersArg}
  /\ rawFeed = <<>>
  /\ pc = "pool"
  /\ sync_completed \in BOOLEAN
  /\ listed = NoListing
  /\ tasks \in {<<NewTask(m)>> : m \in RawValid \cup Unscheduled}
  /\ stats = ZeroStats
  /\ output = "none"
  /\ exit_status = None
  /\ bulk \in BulkSizes
  /\ events \in InitialEvents
  /\ nextId = 3
  /\ faults = 0
  /\ fetches = 0
  /\ writes = 0
  /\ failures = {}
  /\ events0 = events
  /\ bulk0 = bulk
  /\ fmt = NoPipeline

NextWorker ==
  \/ \E i \in DOMAIN tasks : WorkerStart(i)
  \/ \E i \in DOMAIN tasks : WorkerAuth(i)
  \/ \E i \in DOMAIN tasks : WorkerFind(i)
  \/ \E i \in DOMAIN tasks : WorkerGet(i)
  \/ \E i \in DOMAIN tasks : WorkerUpdate(i)
  \/ \E i \in DOMAIN tasks : WorkerInsert(i)

SpecWorker == InitWorker /\ [][NextWorker]_vars

\* --------------------------------------------------------- the pool alone
\* sync_matches from line 162 on: the pool was constructed and one task per
\* match of an upcoming batch was submitted; the batch may be longer than
\* max_workers.
PoolBatch == 3
PoolRecords == {m \in RawValid : m.completed = 0 /\ m.is_cancel = 0}

InitPool ==
  /\ args \in {ParseArgs([dry_run |-> FALSE, all |-> FALSE, upcoming |-> TRUE,
                          full_refresh |-> FALSE, max_workers |-> w]) : w \in 1..MaxWorkersArg}
  /\ rawFeed = <<>>
  /\ pc = "pool"
  /\ sync_completed = FALSE
  /\ listed = NoListing
  /\ tasks \in {[i \in 1..Len(b) |-> NewTask(b[i])] :
                  b \in {q \in SeqsUpTo(PoolRecords, PoolBatch) : Len(q) = PoolBatch}}
  /\ stats = ZeroStats
  /\ output = "none"
  /\ exit_status = None
  /\ bulk = 0
  /\ events = {TrackedOld}
  /\ nextId = 3
  /\ faults = 0
  /\ fetches = 1
  /\ writes = 0
  /\ failures = {}
  /\ events0 = events
  /\ bulk0 = bulk
  /\ fmt = NoPipeline

NextPool ==
  \/ \E i \in DOMAIN tasks : WorkerStart(i)
  \/ \E i \in DOMAIN tasks : WorkerAuth(i)
  \/ \E i \in DOMAIN tasks : WorkerFind(i)
  \/ \E i \in DOMAIN tasks : WorkerGet(i)
  \/ \E i \in DOMAIN tasks : WorkerUpdate(i)
  \/ \E i \in DOMAIN tasks : WorkerInsert(i)
  \/ \E i \in DOMAIN tasks : Collect(i)
  \/ PoolJoin
  \/ Interrupt
  \/ InterruptExit

\* The main thread and the pool threads are scheduled: the pool does not stop
\* while one of them has a step to take.
SpecPool == InitPool /\ [][NextPool]_vars /\ WF_vars(NextPool)

\* ------------------------------------------------------------- properties
Finished(i) == tasks[i].st \in {"done", "collected"}
KeyOf(m) == ToString(m.match_id)
WithKey(evs, k) == {e \in evs : e.slk_match_id = k}
Keys(evs) == {e.slk_match_id : e \in evs} \ {""}
OnePerKey(evs) == \A k \in Keys(evs) : Cardinality(WithKey(evs, k)) <= 1
Total(s) == s.created + s.updated + s.skipped + s.errors
Tally(action) == Cardinality({i \in DOMAIN tasks : tasks[i].st = "collected" /\ tasks[i].action = action})

\* C1: a record reconciled twice in sequence (two tasks of a one-worker pool
\* carrying the same record), with no failing call, against a calendar that
\* began without the record's tracking key: the first pass ends 'created', the
\* second 'updated', and the calendar holds exactly one event with the key.
C1_Idempotence ==
  ( /\ pc \in {"pool", "summary", "exit"}
    /\ args.max_workers = 1 /\ Len(tasks) = 2
    /\ tasks[1].match = tasks[2].match
    /\ faults = 0
    /\ WithKey(events0, KeyOf(tasks[1].match)) = {}
    /\ Finished(2) )
  => /\ tasks[1].action = "created"
     /\ tasks[2].action = "updated"
     /\ Cardinality(WithKey(events, KeyOf(tasks[1].match))) = 1

\* C2: no two tasks of a run carry the same match_id, and a run that starts
\* with at most one event per slk_match_id never holds two events with the
\* same slk_match_id.
C2_OneTaskPerKey ==
  /\ \A i, j \in DOMAIN tasks : i # j => tasks[i].match.match_id # tasks[j].match.match_id
  /\ OnePerKey(events0) => OnePerKey(events)

\* C3: in a full refresh whose authenticate or clear_all_events step reported
\* failure, the feed is never fetched, no task is submitted (so no lookup,
\* insert or update is issued), the status is the single 'error' entry and
\* main reports it as fatal.
C3_FullRefreshGate ==
  ( Mode(args) = "full_refresh" /\ failures \cap {"auth", "clear"} # {} )
  => /\ fetches = 0
     /\ tasks = <<>>
     /\ DOMAIN stats = {"error"}
     /\ pc \in {"summary", "exit"}
     /\ pc = "exit" => output = "fatal"

C3_Witness ==
  /\ Mode(args) = "full_refresh" /\ pc = "exit" /\ output = "fatal"
  /\ "clear" \in failures
  /\ fetch_matches(rawFeed) # <<>>
  /\ writes > 0

InitialPlain == {e \in events0 : ~e.recurring}

\* C4: once a full refresh has reached the reconciliation phase, no
\* non-recurring event of the initial calendar is left in it.
C4_ClearBeforeSync ==
  ( Mode(args) = "full_refresh" /\ (pc = "fr_sync" \/ fetches > 0) )
  => /\ bulk = 0
     /\ \A e \in InitialPlain : ~Exists(e.id)

\* C5: a dry run issues no insert, update or delete and leaves the calendar
\* as it was, whatever the other flags and the batch are.
C5_DryRunNoWrites ==
  args.dry_run => writes = 0 /\ events = events0 /\ bulk = bulk0 /\ tasks = <<>>

C5_Witness ==
  /\ args.dry_run /\ args.full_refresh /\ args.all /\ args.max_workers = MaxWorkersArg
  /\ pc = "exit" /\ output = "dry"
  /\ Len(fetch_matches(rawFeed)) = MaxFeed
  /\ events0 # {} /\ bulk0 > 0

DefaultRunOfE2E ==
  /\ rawFeed = E2EFeed /\ Mode(args) = "upcoming" /\ args.max_workers >= 1
  /\ faults = 0 /\ pc = "exit"

\* C6 as stated: the end-to-end feed in default mode without failures reports
\* created + updated = 1, skipped = 1 and errors = 0.
C6_EndToEnd_AsStated ==
  DefaultRunOfE2E => /\ stats.created + stats.updated = 1
                     /\ stats.skipped = 1
                     /\ stats.errors = 0

\* C6, amended: the end-to-end feed in default mode without failures reports
\* created + updated = 1 (updated only when the calendar began with an event
\* for the upcoming record), skipped = 0 and errors = 0; only the upcoming
\* record is submitted.
C6_EndToEnd ==
  DefaultRunOfE2E => /\ stats.created + stats.updated = 1
                     /\ stats.updated = 1 => WithKey(events0, ToString(1)) # {}
                     /\ stats.skipped = 0
                     /\ stats.errors = 0
                     /\ Len(tasks) = 1 /\ tasks[1].match = E2EFeed[1]

C6_Witness ==
  /\ DefaultRunOfE2E /\ output = "stats" /\ exit_status = 0
  /\ stats.created = 1 /\ stats.skipped = 0

\* C7: the matches counted as errors are exactly those whose worker had a
\* failing call.
C7_FailureIsolation ==
  \A i \in DOMAIN tasks :
     Finished(i) => (tasks[i].action = "error" <=> tasks[i].faulted)

\* C8: while the futures are collected the counters add up to the number of
\* futures collected, each counter being the number of collected futures with
\* that action; after a dispatch phase that ran to its end (no interrupt) they
\* add up to the number submitted.
C8_OneOutcomePerMatch ==
  tasks # <<>> =>
    /\ stats.created = Tally("created")
    /\ stats.updated = Tally("updated")
    /\ stats.skipped = Tally("skipped")
    /\ stats.errors = Tally("error")
    /\ (pc \in {"summary", "exit"} /\ output # "interrupted") => Total(stats) = Len(tasks)

C8_Witness ==
  /\ pc = "exit" /\ Len(tasks) = 2
  /\ stats.errors = 1 /\ stats.created + stats.updated = 1

\* C9: a failed feed fetch outside dry-run ends the run with the single fatal
\* message and a non-zero exit status, not with the statistics block.
C9_FetchFailureFatal ==
  ( ~args.dry_run /\ "fetch" \in failures /\ pc = "exit" )
  => output = "fatal" /\ exit_status # 0

\* C10: a run outside dry-run in which a match ended in 'error', or in which
\* authenticate, the fetch or clear_all_events reported failure, exits with a
\* non-zero status.
C10_ExitStatus ==
  ( /\ ~args.dry_run /\ pc = "exit"
    /\ \/ \E i \in DOMAIN tasks : tasks[i].action = "error"
       \/ failures # {} )
  => exit_status = 1

C10_Witness ==
  /\ ~args.dry_run /\ pc = "exit" /\ exit_status = 1 /\ output = "stats"
  /\ \E i \in DOMAIN tasks : tasks[i].action = "error"
  /\ \E i \in DOMAIN tasks : tasks[i].action = "created"

Formatted == fmt.stage \in {"formatted", "described"}
Described == fmt.stage = "described"

\* The title variant that the status priority Cancelled > Completed >
\* Upcoming gives a record.
PriorityGlyph(m) ==
  IF m.is_cancel = 1 THEN "cross"
  ELSE IF m.completed = 1 THEN "trophy"
  ELSE "ball"

\* C11: over all combinations of the status flags, the title that
\* format_match_for_calendar produces is the Cancelled variant if is_cancel = 1,
\* else the Completed variant if completed = 1, else the Upcoming variant; a
\* record with is_cancel = 1 and completed = 1 gets the Cancelled glyph and
\* the "(Cancelled)" suffix, never the Completed glyph, result or marker.
C11_TitlePriority ==
  Formatted =>
    \A j \in DOMAIN fmt.matches :
       LET m == fmt.matches[j]
           title == fmt.formatted[j].title
       IN /\ title.glyph = PriorityGlyph(m)
          /\ m.is_cancel = 1 => title.suffix = "Cancelled" /\ title.result = <<>>

SportsComPage == <<"https://", "sports.com/en/slk">>
FeedChannels(m) == Get(m, "broadcast", <<>>)

\* C12: in the description rendered for an upcoming match, a channel whose
\* name is exactly 'SPORTS.COM' is an anchor to https://sports.com/en/slk,
\* whatever link the feed supplied for it, the empty link included.
C12_DesignatedProvider ==
  Described =>
    \A j \in DOMAIN fmt.matches :
       is_upcoming(fmt.matches[j]) =>
         \A k \in DOMAIN FeedChannels(fmt.matches[j]) :
            fmt.matches[j].broadcast[k].name = "SPORTS.COM" =>
              fmt.descriptions[j].bullets[k] = [name |-> "SPORTS.COM", href |-> SportsComPage]

C12_Witness ==
  /\ Described
  /\ \E j \in DOMAIN fmt.matches :
       /\ is_upcoming(fmt.matches[j])
       /\ FeedChannels(fmt.matches[j]) # <<>>
       /\ fmt.matches[j].broadcast[1].name = "SPORTS.COM"
       /\ fmt.matches[j].broadcast[1].link = <<>>
       /\ fmt.descriptions[j].bullets[1].href = SportsComPage

\* C13 as stated: in the formatted match's broadcast list, every channel whose
\* name is not 'SPORTS.COM' carries the link the feed supplied, verbatim.
C13_OtherChannels_AsStated ==
  Formatted =>
    \A j \in DOMAIN fmt.matches :
       \A k \in DOMAIN FeedChannels(fmt.matches[j]) :
          fmt.matches[j].broadcast[k].name # "SPORTS.COM" =>
            fmt.formatted[j].broadcast[k].link = fmt.matches[j].broadcast[k].link

\* C13, amended: every channel whose name is none of the four names of the
\* lookup table ('SPORTS.COM', 'SONY SPORTS', 'DD MALAYALAM', 'ETISALAT')
\* carries the feed-supplied link verbatim, and every channel keeps its name.
C13_OtherChannels ==
  Formatted =>
    \A j \in DOMAIN fmt.matches :
       /\ DOMAIN fmt.formatted[j].broadcast = DOMAIN FeedChannels(fmt.matches[j])
       /\ \A k \in DOMAIN FeedChannels(fmt.matches[j]) :
            /\ fmt.formatted[j].broadcast[k].name = fmt.matches[j].broadcast[k].name
            /\ fmt.matches[j].broadcast[k].name
                  \notin {"SPORTS.COM", "SONY SPORTS", "DD MALAYALAM", "ETISALAT"} =>
                 fmt.formatted[j].broadcast[k].link = fmt.matches[j].broadcast[k].link

C13_Witness ==
  /\ Formatted
  /\ \E j \in DOMAIN fmt.matches :
       /\ FeedChannels(fmt.matches[j]) # <<>>
       /\ fmt.matches[j].broadcast[1].name = "KERALA VISION"
       /\ fmt.matches[j].broadcast[1].link = FeedLink
       /\ fmt.formatted[j].broadcast[1].link = FeedLink

Fetched == fmt.stage # "raw"

RECURSIVE Satisfying(_)
Satisfying(raw) ==
  IF raw = <<>> THEN <<>>
  ELSE IF ModelValidate(Head(raw)) THEN <<Head(raw)>> \o Satisfying(Tail(raw))
  ELSE Satisfying(Tail(raw))

\* C14: for every raw batch, whatever the shape of its entries, fetch_matches
\* returns, and returns exactly the entries that satisfy every field
\* constraint, in feed order: an invalid entry is dropped and never aborts
\* the batch.
C14_RejectionNonFatal ==
  Fetched => ~fmt.raised /\ fmt.matches = Satisfying(fmt.batch)

NonEmptyStr == {"home_team", "home_team_short_name", "home_team_logo",
                "away_team", "away_team_short_name", "away_team_logo"}

\* C15: every record that fetch_matches hands on has match_id > 0, the flags
\* completed, is_cancel and is_started in {0, 1}, non-empty home and away
\* team name, short name and logo, a parseable match_date, and a result that
\* is absent, empty or of the form '<int> - <int>'.
C15_NormalizedRecord ==
  Fetched =>
    \A j \in DOMAIN fmt.matches :
       LET m == fmt.matches[j]
       IN /\ m.match_id > 0
          /\ m.completed \in {0, 1} /\ m.is_cancel \in {0, 1} /\ m.is_started \in {0, 1}
          /\ \A k \in NonEmptyStr : m[k] # ""
          /\ get_datetime(m) # None
          /\ Has(m, "result") => validate_result(m.result)

Issued(i, op) == \E c \in tasks[i].calls : c[1] = op

\* C16: a task whose list-events call failed during the lookup ends with
\* outcome 'error' and issues no insert.
C16_LookupFailureIsError ==
  \A i \in DOMAIN tasks :
     tasks[i].lookup_failed =>
       /\ ~Issued(i, "insert")
       /\ Finished(i) => tasks[i].action = "error"

\* C17: _process_single_match on a record with completed = 1, called with
\* sync_completed = False and not cut short by an exception, returns
\* 'skipped' in one step, without constructing a service and without any
\* backend call (authenticate, list, get, insert, update, delete); the
\* calendar is as it was.
C17_CompletedSkip ==
  \A i \in DOMAIN tasks :
     ( /\ tasks[i].match.completed = 1 /\ ~sync_completed
       /\ tasks[i].st # "queued" /\ ~tasks[i].faulted )
     => /\ Finished(i) /\ tasks[i].action = "skipped"
        /\ tasks[i].calls = {} /\ tasks[i].service = None
        /\ writes = 0 /\ events = events0 /\ bulk = bulk0

C17_Witness ==
  \E i \in DOMAIN tasks :
     /\ tasks[i].match.completed = 1 /\ ~sync_completed
     /\ tasks[i].st = "done" /\ tasks[i].action = "skipped"
     /\ tasks[i].title.glyph = "trophy"
     /\ tasks[i].calls = {}

\* C18: once a keyboard interrupt has arrived during dispatch, the run can
\* terminate at once, with tasks still in flight: its exit does not wait for
\* the workers.
C18_InterruptNoWait ==
  pc = "interrupted" => ENABLED InterruptExit

\* C19: every backend call of a task goes through the service that this task
\* constructed, never the dispatcher's; every call but authenticate follows a
\* successful authenticate of that service by the task; and no service is
\* used by two tasks.
C19_PerWorkerSessions ==
  \A i \in DOMAIN tasks :
     \A c \in tasks[i].calls :
        /\ c[1] \in BackendOps
        /\ c[2] = i /\ c[2] = tasks[i].service /\ c[2] # DispatcherService
        /\ c[1] # "authenticate" =>
             tasks[i].authenticated /\ <<"authenticate", c[2]>> \in tasks[i].calls
        /\ \A j \in DOMAIN tasks \ {i} : \A d \in tasks[j].calls : d[2] # c[2]

C19_Witness ==
  /\ Mode(args) = "full_refresh" /\ Len(tasks) = 2 /\ pc = "exit"
  /\ \E i, j \in DOMAIN tasks :
       /\ i # j
       /\ {<<"authenticate", i>>, <<"list", i>>, <<"insert", i>>} \subseteq tasks[i].calls
       /\ {<<"authenticate", j>>, <<"list", j>>} \subseteq tasks[j].calls

\* What sync_matches dispatches from a feed: the upcoming valid records in
\* default mode, every valid record otherwise.
Dispatched == IF Mode(args) = "upcoming" THEN get_upcoming_matches(rawFeed)
              ELSE fetch_matches(rawFeed)

EmptyBatch ==
  /\ ~args.dry_run /\ fetches > 0 /\ "fetch" \notin failures
  /\ Dispatched = <<>>

\* C20: when the fetch succeeds and leaves no record to dispatch (no valid
\* record, or none that is upcoming in default mode), sync_matches returns
\* all-zero statistics, submits no task and issues no backend call, and the
\* run prints the statistics and exits with status zero.
C20_EmptyBatch ==
  EmptyBatch =>
    /\ stats.created = 0 /\ stats.updated = 0 /\ stats.skipped = 0 /\ stats.errors = 0
    /\ tasks = <<>>
    /\ Mode(args) # "full_refresh" => writes = 0 /\ events = events0 /\ bulk = bulk0
    /\ pc \in {"summary", "exit"}
    /\ pc = "exit" => output = "stats" /\ exit_status = 0

C20_Witness ==
  /\ EmptyBatch /\ Mode(args) = "upcoming" /\ pc = "exit" /\ exit_status = 0
  /\ Len(fetch_matches(rawFeed)) = MaxFeed
  /\ events0 # {}

\* What str(e) is for the faults a backend call can raise.
FaultMessages == {"HttpError", "Exception"}

\* C21: a task one of whose list, get, update or insert calls raised a fault
\* ends with outcome 'error', and its error field is the fault's own message.
C21_FaultMessageRetained ==
  \A i \in DOMAIN tasks :
     ( Finished(i) /\ tasks[i].failed \cap {"list", "get", "update", "insert"} # {} )
     => tasks[i].action = "error" /\ tasks[i].error \in FaultMessages

\* C22: in a full refresh, once the list call or the delete call for any
\* single event has failed during clear_all_events, the clear step reports
\* failure and the run aborts before reconciliation: the step does not go on,
\* the feed is not fetched and no task is submitted.
C22_ClearFailureFatal ==
  ( Mode(args) = "full_refresh" /\ listed.failed )
  => /\ "clear" \in failures
     /\ pc \in {"summary", "exit"}
     /\ fetches = 0 /\ tasks = <<>>

Looked(i) == tasks[i].st \in {"get", "insert"} /\ ~tasks[i].lookup_failed

\* C23: a lookup whose list call succeeded returns the id of an event whose
\* private slk_match_id is str(match_id) whenever the calendar holds such an
\* event, and not-found only when it holds none, whatever the size of the
\* calendar and the position of the event in start-time order.
C23_LookupComplete ==
  \A i \in DOMAIN tasks :
     Looked(i) =>
       LET hits == WithKey(events, KeyOf(tasks[i].match))
       IN /\ tasks[i].found = None <=> hits = {}
          /\ tasks[i].found # None => tasks[i].found \in {e.id : e \in hits}

WritesOf(i) == {k \in DOMAIN tasks[i].log : tasks[i].log[k] \in {"insert", "update", "delete"}}

\* C24: the reconciliation of one match issues at most one backend write: one
\* insert, only after its lookup returned not-found, or one update, only
\* after its lookup returned an event id; never both, never a delete, and
\* the list call of the lookup precedes the write.
C24_OneWritePerMatch ==
  \A i \in DOMAIN tasks :
     /\ Cardinality(WritesOf(i)) <= 1
     /\ \A k \in WritesOf(i) :
          /\ \E j \in 1..(k - 1) : tasks[i].log[j] = "list"
          /\ tasks[i].log[k] = "insert" => tasks[i].found = None
          /\ tasks[i].log[k] = "update" => tasks[i].found # None
          /\ tasks[i].log[k] # "delete"

C24_Witness ==
  /\ pc = "exit" /\ Len(tasks) = 2
  /\ \E i, j \in DOMAIN tasks :
       /\ tasks[i].action = "created"
       /\ tasks[i].log = <<"authenticate", "list", "insert">>
       /\ tasks[j].action = "updated"
       /\ tasks[j].log = <<"authenticate", "list", "get", "update">>

\* A calendar-backend call has been issued: by the dispatcher's service (a
\* full refresh begins with authenticate) or by a task.
BackendTouched ==
  \/ writes > 0
  \/ \E i \in DOMAIN tasks : tasks[i].calls # {}
  \/ Mode(args) = "full_refresh" /\ pc # "main"

\* C25 as stated: every run, in every mode, issues exactly one feed fetch,
\* and that fetch precedes every calendar-backend call of the run.
C25_SingleFetch_AsStated ==
  /\ fetches <= 1
  /\ pc = "exit" => fetches = 1
  /\ fetches = 0 => ~BackendTouched

FullRefreshAborted ==
  Mode(args) = "full_refresh" /\ failures \cap {"auth", "clear"} # {}

\* C25, amended: a run issues at most one feed fetch, and exactly one unless
\* it is a full refresh whose authenticate or clear step reported failure
\* (then none).  The fetch is the dispatcher's: it precedes the submission of
\* the tasks, hence every backend call of a worker.  Outside full refresh it
\* precedes every backend call of the run; in a full refresh the dispatcher's
\* authenticate, list and delete calls come before it.
C25_SingleFetch ==
  /\ fetches <= 1
  /\ pc = "exit" => fetches = IF FullRefreshAborted THEN 0 ELSE 1
  /\ tasks # <<>> => fetches = 1
  /\ (Mode(args) # "full_refresh" /\ fetches = 0) => ~BackendTouched

C25_Witness ==
  /\ Mode(args) = "full_refresh" /\ pc = "exit" /\ fetches = 1
  /\ events0 # {} /\ writes > Len(tasks) /\ Len(tasks) = MaxFeed
  /\ \A i \in DOMAIN tasks : tasks[i].action = "created"

FrameOf(e) ==
  [id |-> e.id, slk_match_id |-> e.slk_match_id, recurring |-> e.recurring,
   reminders |-> e.reminders, source |-> e.source]

\* A step changed event e into e2 by a successful update_event of task i.
UpdatedBy(i, e, e2) ==
  LET formatted_match == format_match_for_calendar(tasks[i].match)
  IN /\ tasks[i].st = "update" /\ tasks[i].found = e.id
     /\ tasks'[i].action = "updated"
     /\ e2.summary = formatted_match.title
     /\ e2.description = format_event_description(formatted_match)
     /\ e2.location = formatted_match.venue
     /\ formatted_match.datetime # None => e2.start = formatted_match.datetime

\* C26: every step leaves each event's tracking key, reminders and source as
\* they were, and an event changes only by a successful update_event, which
\* sets summary, description and location (and the start when the record has
\* a schedule) to the values derived from the record.
C26_UpdateFrame ==
  [][ \A e \in events : \A e2 \in events' :
        e2.id = e.id =>
          /\ FrameOf(e2) = FrameOf(e)
          /\ e2 # e => \E i \in DOMAIN tasks : UpdatedBy(i, e, e2) ]_vars

C26_Witness ==
  /\ pc = "exit" /\ TrackedOld \in events0
  /\ \E i \in DOMAIN tasks : \E e \in events :
       /\ tasks[i].action = "updated" /\ tasks[i].found = e.id
       /\ tasks[i].match.completed = 1
       /\ e.summary = tasks[i].title /\ e.summary.glyph = "trophy"
       /\ e.description.upcoming_block = FALSE
       /\ e.location = "Not Available"
       /\ e.reminders = OwnerReminders /\ e.slk_match_id = KeyOf(tasks[i].match)

\* C27: every event that appears in the calendar was inserted by a
\* create_event of some task and carries str(match_id) of that task's record
\* as its private slk_match_id, reminders with useDefault false and the one
\* override (popup, 60 minutes), and the fixed source block.
C27_CreatedEventKey ==
  [][ \A e \in events' :
        (\A e0 \in events : e0.id # e.id) =>
          \E i \in DOMAIN tasks :
             /\ tasks[i].st = "insert" /\ tasks'[i].action = "created"
             /\ e.slk_match_id = ToString(tasks[i].match.match_id)
             /\ e.reminders = [useDefault |-> FALSE,
                               overrides |-> <<[method |-> "popup", minutes |-> 60]>>]
             /\ e.source = [title |-> "Super League Kerala",
                            url |-> "https://www.superleaguekerala.com"] ]_vars

C27_Witness ==
  /\ pc = "exit" /\ Len(tasks) = 2
  /\ \E e \in events :
       /\ e.id >= 3 /\ e.slk_match_id = ToString(MaxMatchId)
       /\ e.reminders.overrides = <<[method |-> "popup", minutes |-> 60]>>
       /\ e.source.title = "Super League Kerala"
       /\ \E i \in DOMAIN tasks :
            tasks[i].action = "created" /\ tasks[i].match.match_id = MaxMatchId

\* C28: the description contains the ticket line and the broadcast list
\* exactly when the record is upcoming (completed = 0 and is_cancel = 0), and
\* contains the final score, the match center link or the video link only
\* when completed = 1, over all combinations of the status flags.
C28_UpcomingBlock ==
  Described =>
    \A j \in DOMAIN fmt.matches :
       LET m == fmt.matches[j]
           d == fmt.descriptions[j]
       IN /\ d.upcoming_block <=> is_upcoming(m)
          /\ (d.tickets # <<>>) <=> is_upcoming(m)
          /\ (d.final_score # <<>> \/ d.match_center \/ d.full_match # <<>>) => m.completed = 1

PoolBounded == Cardinality(InProgress) <= args.max_workers
AllRun == \A i \in DOMAIN tasks : Finished(i)

\* C29: in every state of a run the number of tasks in progress (started and
\* not yet returned) is at most max_workers, no run ends with a submitted
\* task that was not run, and every submitted task is eventually run to its
\* end.
C29_BoundedPool ==
  /\ [](PoolBounded /\ (pc \in {"summary", "exit"} => AllRun))
  /\ (tasks # <<>>) ~> AllRun

C29_Witness ==
  /\ Len(tasks) > args.max_workers
  /\ Cardinality(InProgress) = args.max_workers
  /\ \E i \in DOMAIN tasks : tasks[i].st = "queued"

\* C30: a task whose formatted match has no datetime, once started and unless
\* formatting itself raised, is finished with outcome 'skipped' and no
\* error, has issued no backend call (no authenticate, list, get, update or
\* insert), has no service object, and has left the calendar as it was.
C30_NoSchedule ==
  \A i \in DOMAIN tasks :
     LET t == tasks[i]
     IN (format_match_for_calendar(t.match).datetime = None /\ t.st # "queued" /\ ~t.faulted) =>
          /\ Finished(i)
          /\ t.action = "skipped" /\ t.error = NoError /\ ~t.success
          /\ t.calls = {} /\ t.log = <<>> /\ t.service = None
          /\ events = events0 /\ bulk = bulk0 /\ writes = 0

C30_Witness ==
  \E i \in DOMAIN tasks :
     /\ format_match_for_calendar(tasks[i].match).datetime = None
     /\ tasks[i].match.completed = 0
     /\ tasks[i].st = "done" /\ tasks[i].action = "skipped" /\ ~tasks[i].faulted

AuthFailed(i) == "authenticate" \in tasks[i].failed

\* A step in which task i's authenticate call fails.
AuthFails(i) == i \in DOMAIN tasks /\ ~AuthFailed(i) /\ "authenticate" \in tasks'[i].failed

\* C31: a task whose own authenticate call failed is finished with outcome
\* 'error' and success false, has issued no list, get, update or insert, and
\* the step in which the call failed changed no other task and nothing on
\* the calendar.
C31_WorkerAuthFailure ==
  /\ [](\A i \in DOMAIN tasks :
          AuthFailed(i) =>
            /\ Finished(i)
            /\ tasks[i].action = "error" /\ ~tasks[i].success
            /\ tasks[i].error = "Failed to authenticate calendar service"
            /\ tasks[i].log = <<"authenticate">>)
  /\ [][\A i \in DOMAIN tasks :
          AuthFails(i) =>
            /\ \A j \in DOMAIN tasks \ {i} : tasks'[j] = tasks[j]
            /\ events' = events /\ bulk' = bulk]_vars

\* One task's authentication failed and another task, authenticated through
\* its own service, went on to write its event.
C31_Witness ==
  \E i, j \in DOMAIN tasks :
     /\ i # j /\ AuthFailed(i) /\ Finished(i)
     /\ Finished(j) /\ tasks[j].authenticated /\ tasks[j].success
     /\ tasks[j].action \in {"created", "updated"}

\* C32: in a default (upcoming-only) run every submitted task's record has
\* completed = 0 and is_cancel = 0, no task meets the completed-skip
\* condition, and every event the run created or updated carries the key of
\* a submitted, upcoming record.
C32_DefaultDispatchesUpcoming ==
  Mode(args) = "upcoming" =>
    /\ \A i \in DOMAIN tasks :
          /\ tasks[i].match.completed = 0 /\ tasks[i].match.is_cancel = 0
          /\ ~SkipCompleted(format_match_for_calendar(tasks[i].match), sync_completed)
          /\ tasks[i].st # "queued" /\ ~tasks[i].faulted => tasks[i].service # None
    /\ \A e \in events \ events0 :
          \E i \in DOMAIN tasks :
             /\ KeyOf(tasks[i].match) = e.slk_match_id
             /\ tasks[i].match.completed = 0 /\ tasks[i].match.is_cancel = 0

\* A default run over a feed that holds a valid completed or cancelled
\* record, ended after writing the event of an upcoming one.
C32_Witness ==
  /\ Mode(args) = "upcoming" /\ pc = "exit"
  /\ \E k \in DOMAIN rawFeed :
        /\ ModelValidate(rawFeed[k])
        /\ rawFeed[k].completed = 1 \/ rawFeed[k].is_cancel = 1
  /\ \E i \in DOMAIN tasks : tasks[i].action \in {"created", "updated"} /\ tasks[i].success

\* The clear loop is at a listed event that carries recurringEventId.
AtRecurring ==
  /\ pc = "fr_delete" /\ listed.nb = 0 /\ listed.items # <<>>
  /\ Head(listed.items).recurring

\* C33: in a full refresh, during and after the clear step every event with
\* recurringEventId that was on the calendar before is still there,
\* unchanged, and the loop's step at such an event issues no delete call.
C33_ClearSparesRecurring ==
  /\ [](( Mode(args) = "full_refresh" /\ pc \in {"fr_clear", "fr_delete", "fr_sync"} )
        => \A e \in events0 : e.recurring => e \in events)
  /\ [][AtRecurring => writes' = writes /\ events' = events /\ faults' = faults]_vars

\* The clear step ended: it deleted the tracked event and kept the recurring
\* instance listed before it.
C33_Witness ==
  /\ Mode(args) = "full_refresh" /\ pc = "fr_sync"
  /\ RecurringInstance \in events0 /\ RecurringInstance \in events
  /\ TrackedOld \in events0 /\ TrackedOld \notin events

AllCollected == \A i \in DOMAIN tasks : tasks[i].st = "collected"
SyncReturned == pc = "summary" /\ AllCollected /\ Total(stats) = Len(tasks)
InterruptedExit == pc = "exit" /\ output = "interrupted" /\ AllRun

\* C34 as stated: from the submission of a batch on, sync_matches eventually
\* returns with every task's outcome collected.
C34_Termination_AsStated == (pc = "pool") ~> SyncReturned

\* C34: from the submission of a batch on, sync_matches eventually returns
\* with every task's outcome collected and counted, or a KeyboardInterrupt
\* reached the dispatcher and the run eventually exits with every task
\* finished; the pool is left in no other way, and while the pool runs the
\* dispatcher has a step to take as soon as every task is finished.
C34_Termination ==
  /\ (pc = "pool") ~> (SyncReturned \/ InterruptedExit)
  /\ [](pc = "summary" => SyncReturned)
  /\ [](pc = "exit" => InterruptedExit /\ faults > 0)
  /\ []((pc = "pool" /\ AllRun) => ENABLED (PoolJoin \/ \E i \in DOMAIN tasks : Collect(i)))

\* sync_matches returned for a full batch one of whose backend calls failed.
C34_Witness ==
  /\ SyncReturned /\ Len(tasks) = PoolBatch
  /\ \E i \in DOMAIN tasks : tasks[i].failed # {}
  /\ \E i \in DOMAIN tasks : tasks[i].success
====
